---- MODULE Spec2Model ----
(***************************************************************************)
(* The read-write table of zkevm-circuits (src/witness/rw.rs): the Rw      *)
(* access records, the RwMap container, its canonical ordering             *)
(* (table_assignments), the Start-row padding (table_assignments_prepad),  *)
(* and the two offline checks (check_rw_counter_sanity, check_value).      *)
(***************************************************************************)
EXTENDS Naturals, Sequences, FiniteSets, Bags, TLC

VARIABLES
    rws,    \* RwMap.0 : HashMap<Target, Vec<Rw>>, a function from a set of tags
    rows,   \* the slice handed to table_assignments_prepad
    rw_row, \* the RwRow<F> handed to rlc
    out     \* the outcome of the last operation that ran

vars == <<rws, rows, rw_row, out>>

(***************************************************************************)
(* Bounds of the model.                                                    *)
(***************************************************************************)
MaxRows    == 3   \* records held by a container, all groups together
MaxLen     == 3   \* length of a slice handed to table_assignments_prepad
MaxTarget  == 4   \* largest target_len tried
MaxNonZero == 2   \* elements of an RwRow that are not zero

Counters == {1, 2}   \* the rw_counter values of the input records
Values   == {0, 1}   \* the values of the input records

(***************************************************************************)
(* Option<T>: None is the empty sequence, Some(x) the sequence <<x>>.      *)
(***************************************************************************)
None == << >>
Some(x) == <<x>>
unwrap_or_default(o) == IF o = None THEN 0 ELSE o[1]

(***************************************************************************)
(* bus_mapping::operation::Target, the resource tag, and its ordinal       *)
(* (`row.tag() as u64`).  The enumeration lives outside this file; the     *)
(* ordinals follow the order in which the tags are listed, Start first.    *)
(***************************************************************************)
Target ==
    { "Start", "Stack", "Memory", "Storage", "Account", "CallContext",
      "TxLog", "TxReceipt", "TxAccessListAccount",
      "TxAccessListAccountStorage", "TxRefund" }

TargetOrd(t) ==
    CASE t = "Start"                      -> 1
      [] t = "Stack"                      -> 2
      [] t = "Memory"                     -> 3
      [] t = "Storage"                    -> 4
      [] t = "Account"                    -> 5
      [] t = "CallContext"                -> 6
      [] t = "TxLog"                      -> 7
      [] t = "TxReceipt"                  -> 8
      [] t = "TxAccessListAccount"        -> 9
      [] t = "TxAccessListAccountStorage" -> 10
      [] t = "TxRefund"                   -> 11

\* `field_tag as u64` of table::AccountFieldTag (Nonce, Balance, CodeHash).
AccountFieldTagOrd(f) ==
    CASE f = "Nonce"    -> 0
      [] f = "Balance"  -> 1
      [] f = "CodeHash" -> 2

(***************************************************************************)
(* enum Rw: one record per variant, `kind` naming the variant and the      *)
(* other fields being the variant's own.                                   *)
(***************************************************************************)
Start(c) == [kind |-> "Start", rw_counter |-> c]

Stack(c, w, id, sp, v) ==
    [kind |-> "Stack", rw_counter |-> c, is_write |-> w, call_id |-> id,
     stack_pointer |-> sp, value |-> v]

Account(c, w, a, f, v, vp) ==
    [kind |-> "Account", rw_counter |-> c, is_write |-> w,
     account_address |-> a, field_tag |-> f, value |-> v, value_prev |-> vp]

AccountStorage(c, w, a, k, v, vp, tx, cv) ==
    [kind |-> "AccountStorage", rw_counter |-> c, is_write |-> w,
     account_address |-> a, storage_key |-> k, value |-> v, value_prev |-> vp,
     tx_id |-> tx, committed_value |-> cv]

Memory(c, w, id, a, b) ==
    [kind |-> "Memory", rw_counter |-> c, is_write |-> w, call_id |-> id,
     memory_address |-> a, byte |-> b]

CallContext(c, w, id, f, v) ==
    [kind |-> "CallContext", rw_counter |-> c, is_write |-> w,
     call_id |-> id, field_tag |-> f, value |-> v]

TxLog(c, w, tx, log, f, i, v) ==
    [kind |-> "TxLog", rw_counter |-> c, is_write |-> w, tx_id |-> tx,
     log_id |-> log, field_tag |-> f, index |-> i, value |-> v]

TxReceipt(c, w, tx, f, v) ==
    [kind |-> "TxReceipt", rw_counter |-> c, is_write |-> w, tx_id |-> tx,
     field_tag |-> f, value |-> v]

TxAccessListAccount(c, w, tx, a, warm, warm_prev) ==
    [kind |-> "TxAccessListAccount", rw_counter |-> c, is_write |-> w,
     tx_id |-> tx, account_address |-> a, is_warm |-> warm,
     is_warm_prev |-> warm_prev]

TxAccessListAccountStorage(c, w, tx, a, k, warm, warm_prev) ==
    [kind |-> "TxAccessListAccountStorage", rw_counter |-> c,
     is_write |-> w, tx_id |-> tx, account_address |-> a,
     storage_key |-> k, is_warm |-> warm, is_warm_prev |-> warm_prev]

TxRefund(c, w, tx, v, vp) ==
    [kind |-> "TxRefund", rw_counter |-> c, is_write |-> w, tx_id |-> tx,
     value |-> v, value_prev |-> vp]

\* Rw::rw_counter
rw_counter(rw) == rw.rw_counter

\* Rw::is_write
is_write(rw) == IF rw.kind = "Start" THEN FALSE ELSE rw.is_write

\* Rw::tag
tag(rw) ==
    CASE rw.kind = "Start"          -> "Start"
      [] rw.kind = "Stack"          -> "Stack"
      [] rw.kind = "Account"        -> "Account"
      [] rw.kind = "AccountStorage" -> "Storage"
      [] rw.kind \in {"Memory", "CallContext", "TxLog", "TxReceipt",
                      "TxAccessListAccount", "TxAccessListAccountStorage",
                      "TxRefund"} -> rw.kind

\* Rw::id
id(rw) ==
    CASE rw.kind \in {"AccountStorage", "TxAccessListAccount",
                      "TxAccessListAccountStorage", "TxRefund", "TxLog",
                      "TxReceipt"}        -> Some(rw.tx_id)
      [] rw.kind \in {"CallContext", "Stack", "Memory"}
                                          -> Some(rw.call_id)
      [] rw.kind \in {"Start", "Account"} -> None

\* Rw::address (U256::from(stack_pointer).to_address() keeps a usize as it
\* is).  The TxLog arm calls util::build_tx_log_address, which is not part
\* of this file; no TxLog record is sorted or checked here.
address(rw) ==
    CASE rw.kind \in {"Account", "AccountStorage", "TxAccessListAccount",
                      "TxAccessListAccountStorage"}
                                -> Some(rw.account_address)
      [] rw.kind = "Memory"     -> Some(rw.memory_address)
      [] rw.kind = "Stack"      -> Some(rw.stack_pointer)
      [] rw.kind \in {"Start", "CallContext", "TxRefund", "TxReceipt"}
                                -> None

\* Rw::field_tag.  The CallContext and TxReceipt arms cast field tags of
\* table.rs, whose ordinals are not part of this file; no such record is
\* sorted or checked here.
field_tag(rw) ==
    CASE rw.kind = "Account" -> Some(AccountFieldTagOrd(rw.field_tag))
      [] rw.kind \in {"Start", "Memory", "Stack", "AccountStorage",
                      "TxAccessListAccount", "TxAccessListAccountStorage",
                      "TxRefund", "TxLog"} -> None

\* Rw::storage_key
storage_key(rw) ==
    CASE rw.kind \in {"AccountStorage", "TxAccessListAccountStorage"}
                                -> Some(rw.storage_key)
      [] rw.kind \in {"Start", "CallContext", "Stack", "Memory", "TxRefund",
                      "Account", "TxAccessListAccount", "TxLog",
                      "TxReceipt"} -> None

\* Rw::value_assignment
value_assignment(rw) ==
    CASE rw.kind = "Start" -> 0
      [] rw.kind \in {"CallContext", "Account", "AccountStorage", "Stack",
                      "TxLog", "TxRefund", "TxReceipt"} -> rw.value
      [] rw.kind \in {"TxAccessListAccount", "TxAccessListAccountStorage"}
                              -> IF rw.is_warm THEN 1 ELSE 0
      [] rw.kind = "Memory"   -> rw.byte

IsStart(rw) == rw.kind = "Start"

(***************************************************************************)
(* The outcome of a call: Panic when it panics (no value is returned),     *)
(* Ok(v) when it returns v.                                                *)
(***************************************************************************)
Panic == [panic |-> TRUE]
Ok(v) == [panic |-> FALSE, value |-> v]

\* padding_len without the overflow panic: every target_len that does not
\* exceed rows_len is served like the auto mode.
padding_len_no_panic(rows_len, target_len) ==
    IF target_len > rows_len THEN Ok(target_len - rows_len) ELSE Ok(1)

\* padding_len with `>=` for `>`: a target equal to rows_len pads nothing.
padding_len_ge(rows_len, target_len) ==
    IF target_len >= rows_len
    THEN Ok(target_len - rows_len)
    ELSE IF target_len # 0 THEN Panic ELSE Ok(1)

\* RwMap::padding_len
padding_len(rows_len, target_len) ==
    IF target_len > rows_len
    THEN Ok(target_len - rows_len)
    ELSE IF target_len # 0 THEN Panic ELSE Ok(1)

\* filter for skip_while: every Start record is dropped, not only the
\* leading ones.
RECURSIVE filter_start(_)
filter_start(s) ==
    IF s = << >> THEN << >>
    ELSE IF IsStart(Head(s)) THEN filter_start(Tail(s))
    ELSE <<Head(s)>> \o filter_start(Tail(s))

\* skip_while that skips nothing: the leading Start records stay.
skip_while_never(s) == s

\* Iterator::skip_while(|rw| matches!(rw, Rw::Start { .. }))
RECURSIVE skip_while_start(_)
skip_while_start(s) ==
    IF s # << >> /\ IsStart(Head(s)) THEN skip_while_start(Tail(s)) ELSE s

\* The padding numbered from 0 (the range 0..padding_length).
padding_from_zero(padding_length) ==
    [i \in 1 .. padding_length |-> Start(i - 1)]

\* (1..=padding_length).map(|rw_counter| Rw::Start { rw_counter })
padding(padding_length) == [i \in 1 .. padding_length |-> Start(i)]

\* table_assignments_prepad that sizes the padding by the slice as passed
\* in, its leading Start rows included.
table_assignments_prepad_unstripped(rs, target_len) ==
    LET stripped       == skip_while_start(rs)
        padding_length == padding_len(Len(rs), target_len)
    IN  IF padding_length.panic
        THEN Panic
        ELSE Ok(<<padding(padding_length.value) \o stripped,
                  padding_length.value>>)

(***************************************************************************)
(* RwMap::table_assignments_prepad: the pair (Vec<Rw>, usize), or Panic    *)
(* when padding_len panics.                                                *)
(***************************************************************************)
table_assignments_prepad(rs, target_len) ==
    LET stripped       == skip_while_start(rs)
        padding_length == padding_len(Len(stripped), target_len)
    IN  IF padding_length.panic
        THEN Panic
        ELSE Ok(<<padding(padding_length.value) \o stripped,
                  padding_length.value>>)

(***************************************************************************)
(* Bounded inputs.                                                         *)
(***************************************************************************)
\* All sequences over S of length at most n.
SeqUpTo(S, n) == UNION { [1 .. k -> S] : k \in 0 .. n }

(***************************************************************************)
(* The field F of RwRow<F>: the integers modulo FieldModulus, F::ZERO = 0. *)
(* The proving system's field is a prime field of about 2^254 elements;    *)
(* rlc uses nothing but its ring operations, which are modelled modulo a   *)
(* small modulus.                                                          *)
(***************************************************************************)
FieldModulus == 5

F == 0 .. FieldModulus - 1

ZERO == 0

add(a, b) == (a + b) % FieldModulus

mul(a, b) == (a * b) % FieldModulus

\* word::Word<F>, a pair of limbs
Word(lo, hi) == [lo |-> lo, hi |-> hi]

\* The number of elements of RwRow::values, [F; 14]
RowWidth == 14

\* struct RwRow<F>, from its elements in the order of the declaration
RwRow(v) ==
    [rw_counter  |-> v[1], is_write |-> v[2], tag |-> v[3], id |-> v[4],
     address     |-> v[5], field_tag |-> v[6],
     storage_key |-> Word(v[7], v[8]),
     value       |-> Word(v[9], v[10]),
     value_prev  |-> Word(v[11], v[12]),
     init_val    |-> Word(v[13], v[14])]

\* #[derive(Default)]: every element is zero
RwRow_default == RwRow([i \in 1 .. RowWidth |-> ZERO])

\* values with the limbs of every word swapped (hi before lo).
values_hi_lo(r) ==
    << r.rw_counter, r.is_write, r.tag, r.id, r.address, r.field_tag,
       r.storage_key.hi, r.storage_key.lo, r.value.hi, r.value.lo,
       r.value_prev.hi, r.value_prev.lo, r.init_val.hi, r.init_val.lo >>

\* RwRow::values
values(r) ==
    << r.rw_counter, r.is_write, r.tag, r.id, r.address, r.field_tag,
       r.storage_key.lo, r.storage_key.hi, r.value.lo, r.value.hi,
       r.value_prev.lo, r.value_prev.hi, r.init_val.lo, r.init_val.hi >>

\* fold(init, f) over the elements of s from the last to the first:
\* s.iter().rev().fold(init, f)
RECURSIVE rev_fold(_, _, _)
rev_fold(s, acc, randomness) ==
    IF s = << >> THEN acc
    ELSE rev_fold(SubSeq(s, 1, Len(s) - 1),
                  add(mul(acc, randomness), s[Len(s)]), randomness)

\* The same fold without .rev(): from the first element to the last.
RECURSIVE fwd_fold(_, _, _)
fwd_fold(s, acc, randomness) ==
    IF s = << >> THEN acc
    ELSE fwd_fold(Tail(s), add(mul(acc, randomness), Head(s)), randomness)

\* rlc that folds the elements in the order of values, .rev() left out.
rlc_no_rev(r, randomness) == fwd_fold(values(r), ZERO, randomness)

\* RwRow::rlc
rlc(r, randomness) == rev_fold(values(r), ZERO, randomness)

\* The vectors of RowWidth elements of which at most k are not zero.
RECURSIVE Sparse(_)
Sparse(k) ==
    IF k = 0 THEN {[i \in 1 .. RowWidth |-> ZERO]}
    ELSE {[v EXCEPT ![i] = a] : v \in Sparse(k - 1), i \in 1 .. RowWidth,
                                a \in F}

\* The rows handed to rlc.
RwRows == {RwRow(v) : v \in Sparse(MaxNonZero)}

\* The records a slice handed to table_assignments_prepad is drawn from.
PadRws ==
    { Start(c) : c \in Counters }
    \cup { Stack(c, w, 1, 0, 0) : c \in Counters, w \in BOOLEAN }

NoOp == [op |-> "none"]

(***************************************************************************)
(* Padding on its own: any slice, any target_len.                          *)
(***************************************************************************)
InitPad ==
    /\ rws = << >>
    /\ rows \in SeqUpTo(PadRws, MaxLen)
    /\ rw_row = RwRow_default
    /\ out = NoOp

\* A call table_assignments_prepad(&rows, target_len); `rows` is borrowed.
Prepad ==
    \E target_len \in 0 .. MaxTarget :
        /\ out' = [op |-> "table_assignments_prepad",
                   target_len |-> target_len,
                   result |-> table_assignments_prepad(rows, target_len)]
        /\ UNCHANGED <<rws, rows, rw_row>>

NextPad == Prepad

SpecPad == InitPad /\ [][NextPad]_vars

(***************************************************************************)
(* The sort key of table_assignments and the resource key of check_value.  *)
(* Rust compares tuples lexicographically.                                 *)
(***************************************************************************)
LexLess(a, b) ==
    \E i \in 1 .. Len(a) :
        /\ a[i] < b[i]
        /\ \A j \in 1 .. i - 1 : a[j] = b[j]

LexLeq(a, b) == a = b \/ LexLess(a, b)

\* The closure `key` of check_value: (tag, id, address, field_tag, storage_key)
key(row) ==
    << TargetOrd(tag(row)),
       unwrap_or_default(id(row)),
       unwrap_or_default(address(row)),
       unwrap_or_default(field_tag(row)),
       unwrap_or_default(storage_key(row)) >>

\* The sort key without its last component, the rw_counter.
sort_key_no_counter(row) ==
    << TargetOrd(tag(row)),
       unwrap_or_default(id(row)),
       unwrap_or_default(address(row)),
       unwrap_or_default(field_tag(row)),
       unwrap_or_default(storage_key(row)) >>

\* The closure given to sort_by_key in table_assignments
sort_key(row) ==
    << TargetOrd(tag(row)),
       unwrap_or_default(id(row)),
       unwrap_or_default(address(row)),
       unwrap_or_default(field_tag(row)),
       unwrap_or_default(storage_key(row)),
       rw_counter(row) >>

(***************************************************************************)
(* slice::sort_by_key, a stable sort: each element is placed behind all    *)
(* the elements placed before it whose key is not greater.                 *)
(***************************************************************************)
insert_stable(sorted, x) ==
    LET n == Cardinality({ i \in 1 .. Len(sorted) :
                             LexLeq(sort_key(sorted[i]), sort_key(x)) })
    IN  SubSeq(sorted, 1, n) \o <<x>> \o SubSeq(sorted, n + 1, Len(sorted))

RECURSIVE sort_from(_, _)
sort_from(sorted, rest) ==
    IF rest = << >> THEN sorted
    ELSE sort_from(insert_stable(sorted, Head(rest)), Tail(rest))

sort_by_key(s) == sort_from(<< >>, s)

(***************************************************************************)
(* HashMap iteration.  The order in which a HashMap yields its entries is  *)
(* not specified: an iteration order is any arrangement of the tags whose  *)
(* group is not empty (an empty group yields nothing when flattened).      *)
(***************************************************************************)
NonEmptyTags(m) == { t \in DOMAIN m : m[t] # << >> }

IterOrders(m) ==
    LET D == NonEmptyTags(m)
        n == Cardinality(D)
    IN  { p \in [1 .. n -> D] : \A i, j \in 1 .. n : p[i] = p[j] => i = j }

\* self.0.values().flatten().cloned().collect()
RECURSIVE flatten(_, _)
flatten(m, order) ==
    IF order = << >> THEN << >>
    ELSE m[Head(order)] \o flatten(m, Tail(order))

\* RwMap::table_assignments
table_assignments(m, order) == sort_by_key(flatten(m, order))

(***************************************************************************)
(* RwMap::check_rw_counter_sanity.  debug_assert_eq! is compiled only      *)
(* when debug assertions are on; without them the loop body is empty.      *)
(***************************************************************************)
\* The counters of every group, the Start group included (no filter).
RECURSIVE counters_of_all(_, _)
counters_of_all(m, order) ==
    IF order = << >> THEN << >>
    ELSE LET t == Head(order)
         IN  [i \in 1 .. Len(m[t]) |-> rw_counter(m[t][i])]
                 \o counters_of_all(m, Tail(order))

\* .filter(|(tag, _rs)| !matches!(tag, Target::Start)).flat_map(..)
\*     .map(|r| r.rw_counter())
RECURSIVE counters_of(_, _)
counters_of(m, order) ==
    IF order = << >> THEN << >>
    ELSE LET t == Head(order)
             here == IF t = "Start" THEN << >>
                     ELSE [i \in 1 .. Len(m[t]) |-> rw_counter(m[t][i])]
         IN  here \o counters_of(m, Tail(order))

\* Itertools::sorted on usize
RECURSIVE sorted(_)
sorted(s) ==
    IF s = << >> THEN << >>
    ELSE LET lo == CHOOSE i \in 1 .. Len(s) : \A j \in 1 .. Len(s) : s[i] <= s[j]
         IN  <<s[lo]>> \o sorted(SubSeq(s, 1, lo - 1) \o SubSeq(s, lo + 1, Len(s)))

\* debug_assert_eq!(idx, rw_counter - 1), idx counting from 0; `rw_counter - 1`
\* overflows, and panics, when rw_counter is 0.
assert_idx(idx, c) == c # 0 /\ idx = c - 1

check_rw_counter_sanity(m, order, debug_assertions) ==
    LET cs == sorted(counters_of(m, order))
    IN  IF debug_assertions /\ \E i \in 1 .. Len(cs) : ~assert_idx(i - 1, cs[i])
        THEN Panic
        ELSE Ok(<< >>)

(***************************************************************************)
(* The Initial-Value Oracle, MptUpdates::mock_from(&rows) and              *)
(* MptUpdates::get: an external collaborator that answers, for a row, with *)
(* no value or with the value its key held before the batch.               *)
(***************************************************************************)
OracleAnswers == { None } \cup { Some(v) : v \in Values \ {0} }

Oracles(rs) == [ { key(rs[i]) : i \in 1 .. Len(rs) } -> OracleAnswers ]

\* updates.get(row).map(|u| u.value_assignments().1)
updates_get(updates, row) == updates[key(row)]

(***************************************************************************)
(* RwMap::check_value.  It returns nothing; its result is what it logs:    *)
(* the entries of errs, each (idx, reason, row, prev_row), idx counting    *)
(* from 0 as in the code.                                                  *)
(***************************************************************************)
err_msg_first     == "first access reads don't change value"
err_msg_non_first == "non-first access reads don't change value"

\* check_row with the first-access branch comparing against the previous
\* row instead of the initial value.
check_row_first_vs_prev(rs, updates, idx) ==
    LET row      == rs[idx + 1]
        prev_row == rs[idx]
        is_first == key(prev_row) # key(row)
        msg      == IF is_first THEN err_msg_first ELSE err_msg_non_first
    IN  IF ~is_write(row) /\ value_assignment(row) # value_assignment(prev_row)
        THEN << <<idx, msg, row, prev_row>> >>
        ELSE << >>

\* check_row with is_first computed from the sort key, rw_counter included.
check_row_counter_in_key(rs, updates, idx) ==
    LET row      == rs[idx + 1]
        prev_row == rs[idx]
        is_first == sort_key(prev_row) # sort_key(row)
    IN  IF ~is_write(row)
        THEN LET value == value_assignment(row)
             IN  IF is_first
                 THEN IF value # unwrap_or_default(updates_get(updates, row))
                      THEN << <<idx, err_msg_first, row, prev_row>> >>
                      ELSE << >>
                 ELSE IF value # value_assignment(prev_row)
                      THEN << <<idx, err_msg_non_first, row, prev_row>> >>
                      ELSE << >>
        ELSE << >>

\* The body of `for idx in 1..rows.len()`: the entries pushed for idx.
check_row(rs, updates, idx) ==
    LET row      == rs[idx + 1]
        prev_row == rs[idx]
        is_first == key(prev_row) # key(row)
    IN  IF ~is_write(row)
        THEN LET value == value_assignment(row)
             IN  IF is_first
                 THEN LET init_value ==
                              unwrap_or_default(updates_get(updates, row))
                      IN  IF value # init_value
                          THEN << <<idx, err_msg_first, row, prev_row>> >>
                          ELSE << >>
                 ELSE LET prev_value == value_assignment(prev_row)
                      IN  IF value # prev_value
                          THEN << <<idx, err_msg_non_first, row, prev_row>> >>
                          ELSE << >>
        ELSE << >>

\* The loop `for idx in 1..rows.len()`, from idx on.
RECURSIVE check_from(_, _, _)
check_from(rs, updates, idx) ==
    IF idx >= Len(rs) THEN << >>
    ELSE check_row(rs, updates, idx) \o check_from(rs, updates, idx + 1)

\* check_value that gives up at the first violation.
check_value_first_only(rs, updates) ==
    LET errs == check_from(rs, updates, 1)
    IN  IF errs = << >> THEN << >> ELSE <<errs[1]>>

check_value(rs, updates) == check_from(rs, updates, 1)

(***************************************************************************)
(* The containers.  From<&OperationContainer> inserts a group for each of  *)
(* the tags and puts every record in the group of its own tag; the         *)
(* counters, flags and values are those of the external operations.        *)
(***************************************************************************)
RwUniverse ==
    { Start(1) }
    \cup { Stack(c, w, 1, 1, v) :
             c \in Counters, w \in BOOLEAN, v \in Values }
    \cup { Stack(1, FALSE, 2, 0, 0),
           Account(2, FALSE, 1, "Balance", 1, 0),
           AccountStorage(2, TRUE, 1, 1, 1, 0, 1, 0) }

\* The container that holds the records of s, each in the group of its tag,
\* in the order in which s lists them.
RECURSIVE select_tag(_, _)
select_tag(s, t) ==
    IF s = << >> THEN << >>
    ELSE IF tag(Head(s)) = t THEN <<Head(s)>> \o select_tag(Tail(s), t)
    ELSE select_tag(Tail(s), t)

container_of(s) == [t \in Target |-> select_tag(s, t)]

Containers == { container_of(s) : s \in SeqUpTo(RwUniverse, MaxRows) }

Init ==
    /\ rws \in Containers
    /\ rows = << >>
    /\ rw_row = RwRow_default
    /\ out = NoOp

\* A call rws.table_assignments()
TableAssignments ==
    /\ out' \in { [op |-> "table_assignments",
                   result |-> table_assignments(rws, order)] :
                  order \in IterOrders(rws) }
    /\ UNCHANGED <<rws, rows, rw_row>>

\* A call rws.check_rw_counter_sanity(), in a build with or without debug
\* assertions
CheckRwCounterSanity ==
    /\ out' \in { [op |-> "check_rw_counter_sanity",
                   debug_assertions |-> debug_assertions,
                   result |-> check_rw_counter_sanity(rws, order,
                                                      debug_assertions)] :
                  order \in IterOrders(rws), debug_assertions \in BOOLEAN }
    /\ UNCHANGED <<rws, rows, rw_row>>

\* A call rws.check_value(): `rows` is its local Vec, `updates` its oracle
CheckValue ==
    /\ out' \in UNION {
            LET rs == table_assignments(rws, order)
            IN  { [op |-> "check_value",
                   rows |-> rs,
                   updates |-> updates,
                   errs |-> check_value(rs, updates)] :
                  updates \in Oracles(rs) } :
            order \in IterOrders(rws) }
    /\ UNCHANGED <<rws, rows, rw_row>>

Next == TableAssignments \/ CheckRwCounterSanity \/ CheckValue

Spec == Init /\ [][Next]_vars

(***************************************************************************)
(* Properties of padding, checked under SpecPad.                           *)
(***************************************************************************)
PadCalled == out.op = "table_assignments_prepad"
PadOk     == PadCalled /\ ~out.result.panic
padded    == out.result.value[1]
pad_count == out.result.value[2]

\* The number of Start records the slice s begins with.
LeadingStarts(s) ==
    CHOOSE k \in 0 .. Len(s) :
        /\ \A i \in 1 .. k : IsStart(s[i])
        /\ k = Len(s) \/ ~IsStart(s[k + 1])

\* The number of rows of s that follow its leading Start records.
StrippedLen(s) == Len(s) - LeadingStarts(s)

\* The first n rows of s are Start records numbered 1, 2, ..., n.
StartsNumbered(s, n) ==
    /\ Len(s) >= n
    /\ \A i \in 1 .. n : s[i] = Start(i)

\* C1 as stated: for every slice rows and every target_len N > Len(rows),
\* the call returns pad_count = N - Len(rows) and the output begins with
\* that many Start records numbered 1..N - Len(rows), Len(rows) being the
\* length of the slice as passed in.
C1_PadCountOfPassedLength ==
    (PadCalled /\ out.target_len > Len(rows)) =>
        /\ ~out.result.panic
        /\ pad_count = out.target_len - Len(rows)
        /\ StartsNumbered(padded, out.target_len - Len(rows))

\* C1 amended: for every slice rows and every target_len N greater than the
\* number of rows left once the leading Start records are stripped, the call
\* returns pad_count = N - (that number) and prepends exactly that many
\* Start records, numbered 1, 2, ..., pad_count in that order.
C1_PadCountOfStrippedLength ==
    (PadCalled /\ out.target_len > StrippedLen(rows)) =>
        /\ ~out.result.panic
        /\ pad_count = out.target_len - StrippedLen(rows)
        /\ StartsNumbered(padded, pad_count)
        /\ Len(padded) = pad_count + StrippedLen(rows)

\* C1 witness: a slice with a leading Start record and other rows, padded
\* to a target above its stripped length, with more than one Start prepended.
C1_Witness ==
    /\ PadOk
    /\ LeadingStarts(rows) >= 1
    /\ StrippedLen(rows) >= 1
    /\ out.target_len > Len(rows)
    /\ pad_count >= 2

\* C2 as stated: every call with 0 < target_len <= Len(rows), Len(rows) the
\* length of the slice as passed in, panics.
C2_PanicOfPassedLength ==
    (PadCalled /\ 0 < out.target_len /\ out.target_len <= Len(rows)) =>
        out.result.panic

\* C2 amended: every call with 0 < target_len <= the number of rows left
\* once the leading Start records are stripped panics and returns nothing;
\* a call that returns never returns a truncated or unpadded table: all the
\* stripped rows are in it, behind at least one Start record.
C2_PanicOfStrippedLength ==
    /\ (PadCalled /\ 0 < out.target_len
                  /\ out.target_len <= StrippedLen(rows)) => out.result.panic
    /\ PadOk => /\ pad_count >= 1
                /\ Len(padded) = pad_count + StrippedLen(rows)

\* C2 witness: a call that panics on a slice that also has a leading Start.
C2_Witness ==
    /\ PadCalled
    /\ out.result.panic
    /\ LeadingStarts(rows) >= 1
    /\ out.target_len = StrippedLen(rows)

\* C3: after a successful call, the output behind its pad_count prepended
\* Start records is the input slice without its leading Start records (the
\* same records, fields and order), and the input slice is never modified.
C3_SuffixUnchanged ==
    /\ [](PadOk =>
            SubSeq(padded, pad_count + 1, Len(padded))
                = SubSeq(rows, LeadingStarts(rows) + 1, Len(rows)))
    /\ [][rows' = rows]_vars

\* C3 witness: the slice has a leading Start, and a later Start between
\* other rows that stays where it is.
C3_Witness ==
    /\ PadOk
    /\ Len(rows) = 3
    /\ IsStart(rows[1]) /\ ~IsStart(rows[2]) /\ IsStart(rows[3])
    /\ padded[Len(padded)] = rows[3]

\* C10: a call with target_len = 0 succeeds for every slice, returns
\* pad_count = 1 and prepends exactly one Start record, with counter 1, to
\* the slice without its leading Start records.
C10_AutoModePadsOne ==
    (PadCalled /\ out.target_len = 0) =>
        /\ ~out.result.panic
        /\ pad_count = 1
        /\ padded[1] = Start(1)
        /\ Len(padded) = 1 + StrippedLen(rows)
        /\ Len(padded) >= 2 => ~IsStart(padded[2])

\* C10 witness: the auto mode on a slice of Start records only, which leaves
\* the single synthetic Start record.
C10_Witness ==
    /\ PadOk
    /\ out.target_len = 0
    /\ Len(rows) >= 2
    /\ \A i \in 1 .. Len(rows) : IsStart(rows[i])
    /\ padded = <<Start(1)>>

(***************************************************************************)
(* Properties of the container, checked under Spec.                        *)
(***************************************************************************)
OrZero(o) == IF o = << >> THEN 0 ELSE o[1]

\* The 5-tuple resource key (tag, id-or-0, address-or-0, field_tag-or-0,
\* storage_key-or-0) of a record.
ResourceKey(r) ==
    << TargetOrd(tag(r)), OrZero(id(r)), OrZero(address(r)),
       OrZero(field_tag(r)), OrZero(storage_key(r)) >>

\* The composite key: the resource key followed by the rw_counter.
CompositeKey(r) == ResourceKey(r) \o <<r.rw_counter>>

\* How often x occurs in the sequence s, and in the groups of the container m.
CountIn(s, x) == Cardinality({ i \in 1 .. Len(s) : s[i] = x })
CountInMap(m, x) ==
    Cardinality(UNION { { <<t, i>> : i \in { j \in 1 .. Len(m[t]) : m[t][j] = x } } :
                        t \in DOMAIN m })
RecordsOf(m) == UNION { { m[t][i] : i \in 1 .. Len(m[t]) } : t \in DOMAIN m }
SizeOf(m) ==
    Cardinality(UNION { { <<t, i>> : i \in 1 .. Len(m[t]) } : t \in DOMAIN m })

TableCalled == out.op = "table_assignments"

\* C6: table_assignments returns every record of the container exactly once,
\* in non-decreasing order of the composite key; so the records of one
\* resource key form one contiguous run, and counters do not decrease in it.
C6_CanonicalOrder ==
    TableCalled =>
        LET r == out.result
        IN  /\ Len(r) = SizeOf(rws)
            /\ \A x \in RecordsOf(rws) : CountIn(r, x) = CountInMap(rws, x)
            /\ \A i, j \in 1 .. Len(r) :
                   i < j => LexLeq(CompositeKey(r[i]), CompositeKey(r[j]))
            /\ \A i, j, k \in 1 .. Len(r) :
                   (i < k /\ k < j /\ ResourceKey(r[i]) = ResourceKey(r[j]))
                       => ResourceKey(r[k]) = ResourceKey(r[i])
            /\ \A i, j \in 1 .. Len(r) :
                   (i < j /\ ResourceKey(r[i]) = ResourceKey(r[j]))
                       => r[i].rw_counter <= r[j].rw_counter

\* C6 witness: three rows, two of one resource stored in their group with the
\* later counter first, and a row of another tag.
C6_Witness ==
    /\ TableCalled
    /\ Len(out.result) = 3
    /\ Len(rws["Stack"]) = 2
    /\ ResourceKey(rws["Stack"][1]) = ResourceKey(rws["Stack"][2])
    /\ rws["Stack"][1].rw_counter > rws["Stack"][2].rw_counter
    /\ Len(rws["Account"]) = 1
    /\ out.result[1] = rws["Stack"][2]

\* The arrangements of the sequence s.
Arrangements(s) ==
    { q \in [1 .. Len(s) -> { s[i] : i \in 1 .. Len(s) }] :
        \A x \in { s[i] : i \in 1 .. Len(s) } : CountIn(q, x) = CountIn(s, x) }

\* The containers that hold the records of m, in any insertion order.
Refilled(m) ==
    LET D == NonEmptyTags(m)
    IN  { [t \in DOMAIN m |-> IF t \in D THEN f[t] ELSE << >>] :
            f \in { g \in [D -> UNION { Arrangements(m[t]) : t \in D }] :
                      \A t \in D : g[t] \in Arrangements(m[t]) } }

\* No two different records of m have the same composite key.
CompositeKeysDistinguish(m) ==
    \A x, y \in RecordsOf(m) : CompositeKey(x) = CompositeKey(y) => x = y

\* C7 as stated: table_assignments gives the same sequence whenever it is
\* called on the container, and on every container that holds the same
\* records filled in another insertion order.
C7_OrderIndependent ==
    TableCalled =>
        /\ \A o \in IterOrders(rws) : table_assignments(rws, o) = out.result
        /\ \A m2 \in Refilled(rws) : \A o \in IterOrders(m2) :
               table_assignments(m2, o) = out.result

\* C7 amended: the same, for the containers in which no two different
\* records share a composite key (as when the rw_counters of the records
\* of one resource are unique); whatever the records, the result does not
\* depend on the order in which the groups are visited.
C7_OrderIndependentDistinctKeys ==
    TableCalled =>
        /\ \A o \in IterOrders(rws) : table_assignments(rws, o) = out.result
        /\ CompositeKeysDistinguish(rws) =>
               \A m2 \in Refilled(rws) : \A o \in IterOrders(m2) :
                   table_assignments(m2, o) = out.result

\* C7 witness: a container of distinct composite keys with a group of two
\* records, stored later counter first, and a second group.
C7_Witness ==
    /\ TableCalled
    /\ CompositeKeysDistinguish(rws)
    /\ Len(rws["Stack"]) = 2
    /\ ResourceKey(rws["Stack"][1]) = ResourceKey(rws["Stack"][2])
    /\ rws["Stack"][1].rw_counter > rws["Stack"][2].rw_counter
    /\ Len(rws["Start"]) = 1

SanityCalled == out.op = "check_rw_counter_sanity"

\* The records in the groups other than the Start group, as (tag, position).
NonStartSlots(m) ==
    UNION { { <<t, i>> : i \in 1 .. Len(m[t]) } : t \in DOMAIN m \ {"Start"} }

\* Their counters are 1..N, N their number, with no gap and no duplicate.
CountersContiguous(m) ==
    \A c \in 1 .. Cardinality(NonStartSlots(m)) :
        Cardinality({ s \in NonStartSlots(m) : m[s[1]][s[2]].rw_counter = c }) = 1

\* C8 as stated: check_rw_counter_sanity passes exactly when the counters of
\* the records outside the Start group are 1..N without gap or duplicate.
C8_SanityIffContiguous ==
    SanityCalled => (~out.result.panic <=> CountersContiguous(rws))

\* C8 amended: in a build with debug assertions the check passes exactly
\* when those counters are 1..N without gap or duplicate, the Start group
\* being ignored; in a build without them it always passes.
C8_SanityIffContiguousInDebug ==
    SanityCalled =>
        (~out.result.panic <=>
            (~out.debug_assertions \/ CountersContiguous(rws)))

\* C8 witness: the check passes with debug assertions on a container whose
\* Start record repeats the counter 1 of another record.
C8_Witness ==
    /\ SanityCalled
    /\ out.debug_assertions
    /\ ~out.result.panic
    /\ Len(rws["Start"]) = 1
    /\ Cardinality(NonStartSlots(rws)) = 2

CheckCalled == out.op = "check_value"

\* The Initial-Value Oracle's value for the key of row r.
OracleValue(r) == OrZero(out.updates[ResourceKey(r)])

\* errs holds an entry for the row at idx (counted from 0) with this reason.
HasErr(idx, reason) ==
    \E e \in 1 .. Len(out.errs) :
        out.errs[e][1] = idx /\ out.errs[e][2] = reason

\* The row at position i (counted from 1) is the first row of its key.
FirstOfKey(rs, i) == i = 1 \/ ResourceKey(rs[i - 1]) # ResourceKey(rs[i])

\* C4 as stated: every non-write row that is the first row of its key, the
\* only row of a trace included, has a "first access" violation exactly
\* when its value differs from the oracle's value for its key.
C4_FirstAccessEveryRow ==
    CheckCalled =>
        \A i \in 1 .. Len(out.rows) :
            (~is_write(out.rows[i]) /\ FirstOfKey(out.rows, i)) =>
                (HasErr(i - 1, err_msg_first)
                    <=> value_assignment(out.rows[i]) # OracleValue(out.rows[i]))

\* C4 amended: the same for the rows at position idx >= 1; row 0 is never
\* checked, so it never has a violation.
C4_FirstAccessFromRowOne ==
    CheckCalled =>
        /\ \A i \in 2 .. Len(out.rows) :
               (~is_write(out.rows[i]) /\ FirstOfKey(out.rows, i)) =>
                   (HasErr(i - 1, err_msg_first)
                       <=> value_assignment(out.rows[i]) # OracleValue(out.rows[i]))
        /\ ~HasErr(0, err_msg_first)
        /\ ~HasErr(0, err_msg_non_first)

\* C4 witness: a Start row followed by a single read whose value differs
\* from the oracle's: exactly one violation, at the read.
C4_Witness ==
    /\ CheckCalled
    /\ Len(out.rows) = 2
    /\ IsStart(out.rows[1])
    /\ ~is_write(out.rows[2])
    /\ value_assignment(out.rows[2]) # OracleValue(out.rows[2])
    /\ out.errs = << <<1, err_msg_first, out.rows[2], out.rows[1]>> >>

\* C5: every non-write row at idx >= 1 with the key of the row before it has
\* a "non-first access" violation at idx exactly when its value differs
\* from that row's value; a write followed by a read of the same key gives
\* no violation when the values agree and exactly one, at the read, when
\* they differ.
C5_ReadSeesPreviousValue ==
    CheckCalled =>
        /\ \A i \in 2 .. Len(out.rows) :
               (~is_write(out.rows[i])
                    /\ ResourceKey(out.rows[i]) = ResourceKey(out.rows[i - 1])) =>
                   (HasErr(i - 1, err_msg_non_first)
                       <=> value_assignment(out.rows[i])
                               # value_assignment(out.rows[i - 1]))
        /\ (/\ Len(out.rows) = 2
            /\ is_write(out.rows[1]) /\ ~is_write(out.rows[2])
            /\ ResourceKey(out.rows[1]) = ResourceKey(out.rows[2])) =>
               out.errs =
                   IF value_assignment(out.rows[2]) = value_assignment(out.rows[1])
                   THEN << >>
                   ELSE << <<1, err_msg_non_first, out.rows[2], out.rows[1]>> >>

\* C5 witness: a write and a later read of the same key with another value,
\* stored read first; the one violation is at the read.
C5_Witness ==
    /\ CheckCalled
    /\ Len(rws["Stack"]) = 2
    /\ ~is_write(rws["Stack"][1]) /\ is_write(rws["Stack"][2])
    /\ out.rows = <<rws["Stack"][2], rws["Stack"][1]>>
    /\ Len(out.errs) = 1
    /\ out.errs[1][2] = err_msg_non_first

\* The row at idx >= 1 (counted from 0) breaks the law that applies to it.
Violates(rs, idx) ==
    /\ ~is_write(rs[idx + 1])
    /\ value_assignment(rs[idx + 1]) #
           IF ResourceKey(rs[idx]) # ResourceKey(rs[idx + 1])
           THEN OracleValue(rs[idx + 1])
           ELSE value_assignment(rs[idx])

\* C9: check_value always runs to the end of table_assignments(): errs has
\* one entry (idx, reason, row, prev_row) for each violating row, in row
\* order, not only for the first; no entry is for a write; the container is
\* left as it was.
C9_AllViolationsCollected ==
    /\ [](CheckCalled =>
            /\ \E o \in IterOrders(rws) : out.rows = table_assignments(rws, o)
            /\ Len(out.errs) =
                   Cardinality({ idx \in 1 .. Len(out.rows) - 1 :
                                   Violates(out.rows, idx) })
            /\ \A idx \in 1 .. Len(out.rows) - 1 :
                   Violates(out.rows, idx) =>
                       \E e \in 1 .. Len(out.errs) :
                           /\ out.errs[e][1] = idx
                           /\ out.errs[e][2] \in {err_msg_first, err_msg_non_first}
                           /\ out.errs[e][3] = out.rows[idx + 1]
                           /\ out.errs[e][4] = out.rows[idx]
            /\ \A e, f \in 1 .. Len(out.errs) :
                   e < f => out.errs[e][1] < out.errs[f][1]
            /\ \A e \in 1 .. Len(out.errs) : ~is_write(out.errs[e][3]))
    /\ [][rws' = rws]_vars

\* C9 witness: two violations in one pass, behind a write that has none.
C9_Witness ==
    /\ CheckCalled
    /\ Len(out.rows) = 3
    /\ is_write(out.rows[1])
    /\ Len(out.errs) = 2
    /\ out.errs[1][2] = err_msg_non_first
    /\ out.errs[2][2] = err_msg_first

(***************************************************************************)
(* Further properties of padding, checked under SpecPad.                   *)
(***************************************************************************)
\* C11: every sequence a successful call returns holds at least one Start
\* record, and its row 0 is a Start record with counter 1.
C11_RowZeroIsStartOne ==
    PadOk =>
        /\ Len(padded) >= 1
        /\ \E i \in 1 .. Len(padded) : IsStart(padded[i])
        /\ padded[1] = Start(1)

\* C11 witness: a slice of one record that is no Start, padded to the
\* smallest target_len that is accepted.
C11_Witness ==
    /\ PadOk
    /\ Len(rows) = 1 /\ ~IsStart(rows[1])
    /\ out.target_len = 2
    /\ padded = <<Start(1), rows[1]>>

\* C15: whenever target_len exceeds the number of rows left once the leading
\* Start records are stripped, the call succeeds and its output has exactly
\* target_len rows, however many leading Start records the slice had; with
\* target_len = 0 the output has one row more than the stripped slice.
C15_OutputHasTargetLen ==
    /\ (PadCalled /\ out.target_len > StrippedLen(rows)) =>
           /\ ~out.result.panic
           /\ Len(padded) = out.target_len
    /\ (PadCalled /\ out.target_len = 0) =>
           /\ ~out.result.panic
           /\ Len(padded) = StrippedLen(rows) + 1

\* C15 witness: a slice with two leading Start records, padded to a
\* target_len that does not exceed its length as passed in.
C15_Witness ==
    /\ PadOk
    /\ LeadingStarts(rows) = 2
    /\ StrippedLen(rows) = 1
    /\ out.target_len = 3
    /\ Len(padded) = 3

\* C16: padding is idempotent: when a call succeeds, the call with the same
\* target_len on the sequence it returned succeeds too and returns the same
\* sequence and the same pad_count.
C16_PadIdempotent ==
    PadOk =>
        table_assignments_prepad(padded, out.target_len) = out.result

\* C16 witness: the slice passed in differs from the padded one (a Start
\* record with another counter is replaced, another row is kept), and
\* padding the padded one again changes nothing.
C16_Witness ==
    /\ PadOk
    /\ Len(rows) = 2 /\ rows[1] = Start(2) /\ ~IsStart(rows[2])
    /\ out.target_len = 3
    /\ padded = <<Start(1), Start(2), rows[2]>>
    /\ skip_while_start(padded) = <<rows[2]>>

(***************************************************************************)
(* Lookup: impl Index<(Target, usize)> and impl Index<OperationRef> for    *)
(* RwMap.  Both evaluate &self.0.get(&tag).unwrap()[idx]: Option::unwrap   *)
(* panics on None when the map has no entry for tag, and the slice index   *)
(* panics when idx is not below the length of the Vec.                     *)
(***************************************************************************)
\* A panic and the failure it reports.
PanicWith(failure) == [panic |-> TRUE, failure |-> failure]
UnwrapOnNone     == PanicWith("called Option::unwrap() on a None value")
IndexOutOfBounds == PanicWith("index out of bounds")

\* HashMap::get
get(m, t) == IF t \in DOMAIN m THEN Some(m[t]) ELSE None

\* The lookup with unwrap_or_default for unwrap: a tag without an entry is
\* served as an empty Vec.
index_or_default(m, t, idx) ==
    LET group == IF get(m, t) = None THEN << >> ELSE m[t]
    IN  IF idx < Len(group) THEN Ok(group[idx + 1]) ELSE IndexOutOfBounds

\* <RwMap as Index<(Target, usize)>>::index (idx counts from 0)
index(m, t, idx) ==
    IF get(m, t) = None
    THEN UnwrapOnNone
    ELSE IF idx < Len(m[t]) THEN Ok(m[t][idx + 1]) ELSE IndexOutOfBounds

\* OperationRef(tag, idx), the reference the operation container hands out
OperationRef(t, idx) == <<t, idx>>

\* <RwMap as Index<OperationRef>>::index
index_ref(m, ref) ==
    LET t   == ref[1]
        idx == ref[2]
    IN  IF get(m, t) = None
        THEN UnwrapOnNone
        ELSE IF idx < Len(m[t]) THEN Ok(m[t][idx + 1]) ELSE IndexOutOfBounds

\* The records of the containers that are looked up.
IndexRws == {Start(1), Stack(1, TRUE, 1, 1, 1), Stack(2, FALSE, 1, 1, 1)}

\* RwMap is a public tuple struct over a public HashMap and derives Default:
\* a container has an entry for every tag (as From builds it), or only for
\* the tags records were inserted for (none at all: RwMap::default()).
IndexContainers ==
    LET full == {container_of(s) : s \in SeqUpTo(IndexRws, MaxRows)}
    IN  full \cup {[t \in NonEmptyTags(m) |-> m[t]] : m \in full}

InitIndex ==
    /\ rws \in IndexContainers
    /\ rows = << >>
    /\ rw_row = RwRow_default
    /\ out = NoOp

\* rws[(tag, idx)]
Index ==
    /\ \E t \in Target, idx \in 0 .. MaxRows :
           out' = [op |-> "index", tag |-> t, idx |-> idx,
                   result |-> index(rws, t, idx)]
    /\ UNCHANGED <<rws, rows, rw_row>>

\* rws[OperationRef(tag, idx)]
IndexRef ==
    /\ \E t \in Target, idx \in 0 .. MaxRows :
           out' = [op |-> "index_ref", tag |-> t, idx |-> idx,
                   result |-> index_ref(rws, OperationRef(t, idx))]
    /\ UNCHANGED <<rws, rows, rw_row>>

NextIndex == Index \/ IndexRef

SpecIndex == InitIndex /\ [][NextIndex]_vars

(***************************************************************************)
(* The lookup claim, checked under SpecIndex.                              *)
(***************************************************************************)
IndexCalled == out.op \in {"index", "index_ref"}

\* The group of a tag, a tag without an entry read as an empty group.
GroupOrEmpty(m, t) == IF t \in DOMAIN m THEN m[t] ELSE << >>

\* C12 as stated: both lookups return the record at position index of the
\* group of tag when the group holds more than index records and fail with
\* the out-of-range failure otherwise, a tag without an entry counting as an
\* empty group.
C12_MissingTagIsEmptyGroup ==
    IndexCalled =>
        LET group == GroupOrEmpty(rws, out.tag)
        IN  IF Len(group) > out.idx
            THEN out.result = Ok(group[out.idx + 1])
            ELSE out.result = IndexOutOfBounds

\* C12 amended: for a tag that has an entry, both lookups return the record
\* at position index of its group when the group holds more than index
\* records and fail with the out-of-range failure otherwise; for a tag that
\* has no entry both fail with the unwrap-on-None failure, whatever the
\* index.
C12_MissingTagIsOwnFailure ==
    IndexCalled =>
        IF out.tag \in DOMAIN rws
        THEN IF Len(rws[out.tag]) > out.idx
             THEN out.result = Ok(rws[out.tag][out.idx + 1])
             ELSE out.result = IndexOutOfBounds
        ELSE out.result = UnwrapOnNone

\* C12 witness: a container that holds Stack records and no entry for
\* TxRefund is looked up by reference at TxRefund, index 0, and fails with
\* the unwrap-on-None failure, not the out-of-range one.
C12_Witness ==
    /\ out.op = "index_ref"
    /\ DOMAIN rws = {"Stack"}
    /\ Len(rws["Stack"]) = 2
    /\ out.tag = "TxRefund" /\ out.idx = 0
    /\ out.result = UnwrapOnNone
    /\ out.result # IndexOutOfBounds

(***************************************************************************)
(* impl From<&operation::OperationContainer> for RwMap.                    *)
(*                                                                         *)
(* The operation container of bus_mapping keeps one list per kind of       *)
(* operation.  An entry of a list carries its counter (rwc), its RW        *)
(* ("READ" or "WRITE") and the operation itself (op).  Counters, usize     *)
(* addresses and log ids are below 2^64, so `.into()`, usize::from, the    *)
(* first 8 little-endian bytes and `as u64` keep them as they are.         *)
(***************************************************************************)
MaxOps == 2

Operation(rwc, rw, op) == [rwc |-> rwc, rw |-> rw, op |-> op]

\* RW::is_write
rw_is_write(rw) == rw = "WRITE"

\* match op.op().field { AccountField::X => AccountFieldTag::X }
AccountFieldTag(field) ==
    CASE field = "AccountField::Nonce"    -> "Nonce"
      [] field = "AccountField::Balance"  -> "Balance"
      [] field = "AccountField::CodeHash" -> "CodeHash"

\* match op.op().field { CallContextField::X => CallContextFieldTag::X }
CallContextFieldTag(field) ==
    CASE field = "CallContextField::RwCounterEndOfReversion"
             -> "RwCounterEndOfReversion"
      [] field = "CallContextField::CallerId"         -> "CallerId"
      [] field = "CallContextField::TxId"             -> "TxId"
      [] field = "CallContextField::Depth"            -> "Depth"
      [] field = "CallContextField::CallerAddress"    -> "CallerAddress"
      [] field = "CallContextField::CalleeAddress"    -> "CalleeAddress"
      [] field = "CallContextField::CallDataOffset"   -> "CallDataOffset"
      [] field = "CallContextField::CallDataLength"   -> "CallDataLength"
      [] field = "CallContextField::ReturnDataOffset" -> "ReturnDataOffset"
      [] field = "CallContextField::ReturnDataLength" -> "ReturnDataLength"
      [] field = "CallContextField::Value"            -> "Value"
      [] field = "CallContextField::IsSuccess"        -> "IsSuccess"
      [] field = "CallContextField::IsPersistent"     -> "IsPersistent"
      [] field = "CallContextField::IsStatic"         -> "IsStatic"
      [] field = "CallContextField::LastCalleeId"     -> "LastCalleeId"
      [] field = "CallContextField::LastCalleeReturnDataOffset"
             -> "LastCalleeReturnDataOffset"
      [] field = "CallContextField::LastCalleeReturnDataLength"
             -> "LastCalleeReturnDataLength"
      [] field = "CallContextField::IsRoot"           -> "IsRoot"
      [] field = "CallContextField::IsCreate"         -> "IsCreate"
      [] field = "CallContextField::CodeHash"         -> "CodeHash"
      [] field = "CallContextField::ProgramCounter"   -> "ProgramCounter"
      [] field = "CallContextField::StackPointer"     -> "StackPointer"
      [] field = "CallContextField::GasLeft"          -> "GasLeft"
      [] field = "CallContextField::MemorySize"       -> "MemorySize"
      [] field = "CallContextField::ReversibleWriteCounter"
             -> "ReversibleWriteCounter"

\* match op.op().field { TxLogField::X => TxLogFieldTag::X }
TxLogFieldTag(field) ==
    CASE field = "TxLogField::Address" -> "Address"
      [] field = "TxLogField::Topic"   -> "Topic"
      [] field = "TxLogField::Data"    -> "Data"

\* match op.op().field { TxReceiptField::X => TxReceiptFieldTag::X }
TxReceiptFieldTag(field) ==
    CASE field = "TxReceiptField::PostStateOrStatus" -> "PostStateOrStatus"
      [] field = "TxReceiptField::LogLength"         -> "LogLength"
      [] field = "TxReceiptField::CumulativeGasUsed" -> "CumulativeGasUsed"

\* The closures the lists are mapped with, one per kind of operation.
from_start(op) == Start(op.rwc)

from_tx_access_list_account(op) ==
    TxAccessListAccount(op.rwc, rw_is_write(op.rw), op.op.tx_id,
                        op.op.address, op.op.is_warm, op.op.is_warm_prev)

from_tx_access_list_account_storage(op) ==
    TxAccessListAccountStorage(op.rwc, rw_is_write(op.rw), op.op.tx_id,
                               op.op.address, op.op.key, op.op.is_warm,
                               op.op.is_warm_prev)

from_tx_refund(op) ==
    TxRefund(op.rwc, rw_is_write(op.rw), op.op.tx_id, op.op.value,
             op.op.value_prev)

from_account(op) ==
    Account(op.rwc, rw_is_write(op.rw), op.op.address,
            AccountFieldTag(op.op.field), op.op.value, op.op.value_prev)

from_storage(op) ==
    AccountStorage(op.rwc, rw_is_write(op.rw), op.op.address, op.op.key,
                   op.op.value, op.op.value_prev, op.op.tx_id,
                   op.op.committed_value)

from_call_context(op) ==
    CallContext(op.rwc, rw_is_write(op.rw), op.op.call_id,
                CallContextFieldTag(op.op.field), op.op.value)

from_stack(op) ==
    Stack(op.rwc, rw_is_write(op.rw), op.op.call_id, op.op.address,
          op.op.value)

\* The Memory closure as a copy of the Stack closure above it: the memory
\* operations become Stack records.
from_memory_as_stack(op) ==
    Stack(op.rwc, rw_is_write(op.rw), op.op.call_id, op.op.address,
          op.op.value)

from_memory(op) ==
    Memory(op.rwc, rw_is_write(op.rw), op.op.call_id, op.op.address,
           op.op.value)

from_tx_log(op) ==
    TxLog(op.rwc, rw_is_write(op.rw), op.op.tx_id, op.op.log_id,
          TxLogFieldTag(op.op.field), op.op.index, op.op.value)

from_tx_receipt(op) ==
    TxReceipt(op.rwc, rw_is_write(op.rw), op.op.tx_id,
              TxReceiptFieldTag(op.op.field), op.op.value)

\* HashMap::insert
insert(m, k, v) == [t \in DOMAIN m \cup {k} |-> IF t = k THEN v ELSE m[t]]

\* RwMap::from: the eleven inserts into a fresh map, in the order of the
\* source; `.iter().map(f).collect()` keeps the length and the order.
from(container) ==
    LET collect(ops, f(_)) == [i \in 1 .. Len(ops) |-> f(ops[i])]
        r0  == << >>
        r1  == insert(r0, "Start", collect(container.start, from_start))
        r2  == insert(r1, "TxAccessListAccount",
                      collect(container.tx_access_list_account,
                              from_tx_access_list_account))
        r3  == insert(r2, "TxAccessListAccountStorage",
                      collect(container.tx_access_list_account_storage,
                              from_tx_access_list_account_storage))
        r4  == insert(r3, "TxRefund",
                      collect(container.tx_refund, from_tx_refund))
        r5  == insert(r4, "Account",
                      collect(container.account, from_account))
        r6  == insert(r5, "Storage",
                      collect(container.storage, from_storage))
        r7  == insert(r6, "CallContext",
                      collect(container.call_context, from_call_context))
        r8  == insert(r7, "Stack", collect(container.stack, from_stack))
        r9  == insert(r8, "Memory", collect(container.memory, from_memory))
        r10 == insert(r9, "TxLog", collect(container.tx_log, from_tx_log))
        r11 == insert(r10, "TxReceipt",
                      collect(container.tx_receipt, from_tx_receipt))
    IN  r11

(***************************************************************************)
(* The operation containers RwMap::from is applied to: at most MaxOps      *)
(* operations, each recorded in the list of its kind.  A StartOp is        *)
(* recorded as a read.                                                     *)
(***************************************************************************)
RWs == {"READ", "WRITE"}

\* One counter and RW per operation of a kind: (1, WRITE) and (2, READ).
CounterRW == {<<1, "WRITE">>, <<2, "READ">>}

OpUniverse ==
    { <<"start", Operation(c, "READ", [start |-> TRUE])>> : c \in Counters }
    \cup { <<"tx_access_list_account",
             Operation(x[1], x[2], [tx_id |-> 1, address |-> 1,
                                    is_warm |-> TRUE, is_warm_prev |-> FALSE])>>
           : x \in CounterRW }
    \cup { <<"tx_access_list_account_storage",
             Operation(x[1], x[2], [tx_id |-> 1, address |-> 1, key |-> 1,
                                    is_warm |-> TRUE, is_warm_prev |-> FALSE])>>
           : x \in CounterRW }
    \cup { <<"tx_refund",
             Operation(x[1], x[2], [tx_id |-> 1, value |-> 1,
                                    value_prev |-> 0])>>
           : x \in CounterRW }
    \cup { <<"account",
             Operation(1, rw, [address |-> 1, field |-> f, value |-> 1,
                               value_prev |-> 0])>>
           : rw \in RWs,
             f \in {"AccountField::Nonce", "AccountField::Balance",
                    "AccountField::CodeHash"} }
    \cup { <<"storage",
             Operation(x[1], x[2], [address |-> 1, key |-> 1, value |-> 1,
                                    value_prev |-> 0, tx_id |-> 1,
                                    committed_value |-> 0])>>
           : x \in CounterRW }
    \cup { <<"call_context",
             Operation(x[1], x[2], [call_id |-> 1, field |-> f, value |-> 1])>>
           : x \in CounterRW,
             f \in {"CallContextField::TxId", "CallContextField::IsRoot",
                    "CallContextField::ReversibleWriteCounter"} }
    \cup { <<"stack",
             Operation(x[1], x[2], [call_id |-> 1, address |-> 1,
                                    value |-> 1])>>
           : x \in CounterRW }
    \cup { <<"memory",
             Operation(x[1], x[2], [call_id |-> 1, address |-> 1,
                                    value |-> 1])>>
           : x \in CounterRW }
    \cup { <<"tx_log",
             Operation(1, rw, [tx_id |-> 1, log_id |-> 1, field |-> f,
                               index |-> 0, value |-> 1])>>
           : rw \in RWs,
             f \in {"TxLogField::Address", "TxLogField::Topic",
                    "TxLogField::Data"} }
    \cup { <<"tx_receipt",
             Operation(1, rw, [tx_id |-> 1, field |-> f, value |-> 1])>>
           : rw \in RWs,
             f \in {"TxReceiptField::PostStateOrStatus",
                    "TxReceiptField::LogLength",
                    "TxReceiptField::CumulativeGasUsed"} }

\* The operations of s that were recorded in list l, in the order recorded.
RECURSIVE select_list(_, _)
select_list(s, l) ==
    IF s = << >> THEN << >>
    ELSE IF Head(s)[1] = l THEN <<Head(s)[2]>> \o select_list(Tail(s), l)
    ELSE select_list(Tail(s), l)

\* operation::OperationContainer
OperationContainer(s) ==
    [start                          |-> select_list(s, "start"),
     memory                         |-> select_list(s, "memory"),
     stack                          |-> select_list(s, "stack"),
     storage                        |-> select_list(s, "storage"),
     tx_access_list_account         |->
         select_list(s, "tx_access_list_account"),
     tx_access_list_account_storage |->
         select_list(s, "tx_access_list_account_storage"),
     tx_refund                      |-> select_list(s, "tx_refund"),
     account                        |-> select_list(s, "account"),
     call_context                   |-> select_list(s, "call_context"),
     tx_receipt                     |-> select_list(s, "tx_receipt"),
     tx_log                         |-> select_list(s, "tx_log")]

OperationContainers ==
    { OperationContainer(s) : s \in SeqUpTo(OpUniverse, MaxOps) }

\* No container is built yet.
InitBuild ==
    /\ rws = << >>
    /\ rows = << >>
    /\ rw_row = RwRow_default
    /\ out = NoOp

\* RwMap::from(&container): the container of a block is built once, from
\* a fresh map.
Build ==
    /\ rws = << >>
    /\ out = NoOp
    /\ \E container \in OperationContainers :
           /\ rws' = from(container)
           /\ out' = [op |-> "from", container |-> container]
    /\ UNCHANGED <<rows, rw_row>>

NextBuild == Build

SpecBuild == InitBuild /\ [][NextBuild]_vars

(***************************************************************************)
(* The claim about the builder, checked under SpecBuild.                   *)
(***************************************************************************)
BuildCalled == out.op = "from"

\* The list of the external container whose operations carry tag t.
ListOf(container, t) ==
    CASE t = "Start"                      -> container.start
      [] t = "Stack"                      -> container.stack
      [] t = "Memory"                     -> container.memory
      [] t = "Storage"                    -> container.storage
      [] t = "Account"                    -> container.account
      [] t = "CallContext"                -> container.call_context
      [] t = "TxLog"                      -> container.tx_log
      [] t = "TxReceipt"                  -> container.tx_receipt
      [] t = "TxAccessListAccount"        -> container.tx_access_list_account
      [] t = "TxAccessListAccountStorage" ->
             container.tx_access_list_account_storage
      [] t = "TxRefund"                   -> container.tx_refund

\* The variant of the record an operation with tag t maps to.
VariantOf(t) == IF t = "Storage" THEN "AccountStorage" ELSE t

InitRlc ==
    /\ rws = << >>
    /\ rows = << >>
    /\ rw_row \in RwRows
    /\ out = NoOp

\* row.rlc(randomness)
Rlc ==
    /\ \E randomness \in F :
           out' = [op |-> "rlc", randomness |-> randomness,
                   result |-> rlc(rw_row, randomness)]
    /\ UNCHANGED <<rws, rows, rw_row>>

NextRlc == Rlc

SpecRlc == InitRlc /\ [][NextRlc]_vars

(***************************************************************************)
(* The claim about the digest, checked under SpecRlc.                      *)
(***************************************************************************)
RlcCalled == out.op = "rlc"

\* r to the power n, in the field.
RECURSIVE Pow(_, _)
Pow(r, n) == IF n = 0 THEN 1 % FieldModulus ELSE (r * Pow(r, n - 1)) % FieldModulus

\* The element e_i of a row, i = 0..13, in the order the claim lists.
Element(r, i) ==
    CASE i = 0  -> r.rw_counter
      [] i = 1  -> r.is_write
      [] i = 2  -> r.tag
      [] i = 3  -> r.id
      [] i = 4  -> r.address
      [] i = 5  -> r.field_tag
      [] i = 6  -> r.storage_key.lo
      [] i = 7  -> r.storage_key.hi
      [] i = 8  -> r.value.lo
      [] i = 9  -> r.value.hi
      [] i = 10 -> r.value_prev.lo
      [] i = 11 -> r.value_prev.hi
      [] i = 12 -> r.init_val.lo
      [] i = 13 -> r.init_val.hi

\* The sum of e_i * r^i over i = 0..n, in the field.
RECURSIVE PolySum(_, _, _)
PolySum(r, x, n) ==
    LET term == (Element(r, n) * Pow(x, n)) % FieldModulus
    IN  IF n = 0 THEN term
        ELSE (PolySum(r, x, n - 1) + term) % FieldModulus

\* C14: the digest of a row under randomness r is the sum over i = 0..13 of
\* e_i * r^i in the field, e_0..e_13 being the row's elements in the order
\* rw_counter, is_write, tag, id, address, field_tag, then lo and hi of
\* storage_key, value, value_prev and init_val; the digest is therefore
\* determined by the row and r.
C14_RlcIsPolynomial ==
    RlcCalled => out.result = PolySum(rw_row, out.randomness, 13)

\* C14 witness: a row whose value.lo (e_8) and init_val.hi (e_13) are the
\* only elements that are not zero, digested with r = 2:
\* 3 * 2^8 + 1 * 2^13 = 8960, which is 0 modulo 5.
C14_Witness ==
    /\ RlcCalled
    /\ out.randomness = 2
    /\ rw_row.value.lo = 3
    /\ rw_row.init_val.hi = 1
    /\ rw_row.rw_counter = 0 /\ rw_row.storage_key = Word(0, 0)
    /\ out.result = (3 * 256 + 8192) % FieldModulus

====
